---- MODULE Spec2Model ----
(***************************************************************************)
(* Model of the identity cross-validation pipeline of src/main.py:         *)
(* the POST /v1/validate-application handler, the structural validator,    *)
(* the two extraction branches run on a two-worker thread pool, the        *)
(* asyncio.gather join, the field scoring and the verdict aggregation.     *)
(*                                                                         *)
(* Numbers: scores and similarities that the code rounds with round(x, 2)  *)
(* are integers counting hundredths (80.00 is 8000); the raw values the    *)
(* libraries and the remote service hand back are integers counting        *)
(* thousandths, so that the rounding is a real conversion.                 *)
(* Strings that the code inspects character by character are sequences of  *)
(* one-character strings; an optional string (Python None or str) is a     *)
(* record [some, val].                                                     *)
(***************************************************************************)
EXTENDS Integers, Sequences, FiniteSets, TLC

VARIABLES
    doc,            \* the uploaded document: bytes, layout and what the libraries/service report on it
    appIdArg,       \* the application_id query argument (optional string)
    runNo,          \* how many times the same request has been submitted so far
    prev,           \* the response of the previous submission of the same request
    pc,             \* position of validate_application
    application_id, \* local of validate_application
    joined,         \* (kyc_result, face_result) as delivered by asyncio.gather
    response,       \* the response that leaves validate_application
    kycPc,          \* position of process_kyc_pdf on its worker thread
    kycRes,         \* outcome of process_kyc_pdf
    facePc,         \* position of compare_faces_from_pdf on its worker thread
    faceRes,        \* outcome of compare_faces_from_pdf
    doneOrder,      \* the branches in the order their futures completed
    calls           \* library / service / pipeline entry points touched in this run

vars == <<doc, appIdArg, runNo, prev, pc, application_id, joined, response,
          kycPc, kycRes, facePc, faceRes, doneOrder, calls>>

----------------------------------------------------------------------------
(* Program constants                                                        *)

MAX_FILE_SIZE_MB == 10
REQUIRED_PAGE_COUNT == 3
TEXT_SIMILARITY_THRESHOLD == 80
\* FACE_SIMILARITY_THRESHOLD = 0.7, used only as FACE_SIMILARITY_THRESHOLD * 100
FACE_SIMILARITY_THRESHOLD_X100 == 70
\* random.randint(10000, 99999)
RAND_LO == 10000
RAND_HI == 99999
\* hundredths per unit: round(x, 2)
Scale == 100

(* Bounds of the model                                                      *)

MaxRuns == 2      \* submissions of the same request
MaxPages == 4     \* page counts 0..MaxPages
MaxFaces == 3     \* faces the detection service may report, 0..MaxFaces
StrLen == 2       \* width of the fixed-format values (PAN, date of birth)
MaxTick == 0      \* spread of the clock and latency readings of one run

MaxBytes == MAX_FILE_SIZE_MB * 1024 * 1024

----------------------------------------------------------------------------
(* Optional strings                                                         *)

None == [some |-> FALSE, val |-> <<>>]
Some(s) == [some |-> TRUE, val |-> s]
\* Python truthiness of an optional string: None and "" are falsy
Truthy(v) == v.some /\ v.val # <<>>

UpperChar(c) ==
    CASE c = "a" -> "A"
      [] c = "b" -> "B"
      [] OTHER -> c
\* str.upper()
Upper(s) == [i \in 1..Len(s) |-> UpperChar(s[i])]

Max(a, b) == IF a >= b THEN a ELSE b

\* n / d rounded to the nearest integer, ties to even (Python round)
RoundDiv(n, d) ==
    LET q == n \div d
        r == n % d
    IN  IF 2 * r < d THEN q
        ELSE IF 2 * r > d THEN q + 1
        ELSE IF q % 2 = 0 THEN q ELSE q + 1

\* round(x, 2) of a value given in thousandths, result in hundredths
Round2(t) == RoundDiv(t, 10)

----------------------------------------------------------------------------
(* Field scoring                                                            *)

NameFields == {"full_name", "father_name"}
ExactFields == {"pan_number", "dob"}
Fields == NameFields \cup ExactFields
\* insertion order of the comparison dict
FieldOrder == <<"full_name", "father_name", "pan_number", "dob">>

RECURSIVE LCS(_, _)
LCS(s, t) ==
    IF s = <<>> \/ t = <<>> THEN 0
    ELSE IF Head(s) = Head(t) THEN 1 + LCS(Tail(s), Tail(t))
    ELSE Max(LCS(Tail(s), t), LCS(s, Tail(t)))

\* rapidfuzz fuzz.ratio followed by round(., 2): the normalized Indel
\* similarity 100 * 2*LCS / (len1 + len2); 0 when either side is None,
\* 100 for two empty strings.  Result in hundredths.
RatioRounded(v1, v2) ==
    IF ~v1.some \/ ~v2.some THEN 0
    ELSE LET n == Len(v1.val) + Len(v2.val)
         IN  IF n = 0 THEN 100 * Scale
             ELSE RoundDiv(100 * Scale * 2 * LCS(v1.val, v2.val), n)

ExactScoreOneSidedUpper(val1, val2) ==
    IF Truthy(val1) /\ Truthy(val2) /\ Upper(val1.val) = val2.val
    THEN 100 * Scale
    ELSE RatioRounded(val1, val2)

\* comparison[key] for key in ["pan_number", "dob"]
ExactScore(val1, val2) ==
    IF Truthy(val1) /\ Truthy(val2) /\ Upper(val1.val) = Upper(val2.val)
    THEN 100 * Scale
    ELSE RatioRounded(val1, val2)

NameScoreNoGuard(n1, n2, partial) == Round2(partial)

\* name_score(n1, n2); partial is what fuzz.partial_ratio reports (in
\* thousandths) on the "first last" strings HumanName parses out of n1, n2
NameScore(n1, n2, partial) ==
    IF ~Truthy(n1) \/ ~Truthy(n2) THEN 0
    ELSE Round2(partial)

\* the comparison dict built by process_kyc_pdf
MatchScores(d) ==
    [f \in Fields |->
        IF f \in NameFields
        THEN NameScore(d.form[f], d.card[f], d.partial[f])
        ELSE ExactScore(d.form[f], d.card[f])]

----------------------------------------------------------------------------
(* Documents: the inputs of a request                                       *)

UpperLetters == {"A", "B"}
Letters == {"A", "B", "a"}
Digits == {"1", "2"}
Strings(S, n) == [1..n -> S]
ConstStr(c) == [i \in 1..StrLen |-> c]

\* what the form patterns (case-sensitive, [A-Z]) can capture on page 1
FormPans == {None} \cup {Some(s) : s \in Strings(UpperLetters, StrLen)}
\* what the card patterns (re.IGNORECASE) can capture in the OCR text
CardPans == {None} \cup {Some(s) : s \in Strings(Letters, StrLen)}
Dobs == {None} \cup {Some(s) : s \in Strings(Digits, StrLen)}
\* a name capture: no match, a match that strips to "", a proper name
NameValues == {None, Some(<<>>), Some(<<"N">>)}
\* fuzz.partial_ratio readings, thousandths
PartialSamples == {0, 79994, 79996, 100000}
\* Rekognition similarity readings, thousandths
SimSamples == {50000, 69994, 69996, 90000}
\* compare_faces: the call raises, returns no FaceMatches, or a top match
CmpOutcomes == {[kind |-> "error", sim |-> 0], [kind |-> "nomatch", sim |-> 0]}
               \cup {[kind |-> "match", sim |-> t] : t \in SimSamples}
Lens == {MaxBytes, MaxBytes + 1}

BaseDoc ==
    [len |-> MaxBytes, parses |-> TRUE, pages |-> REQUIRED_PAGE_COUNT,
     form |-> [f \in Fields |->
                 IF f = "pan_number" THEN Some(ConstStr("A"))
                 ELSE IF f = "dob" THEN Some(ConstStr("1"))
                 ELSE Some(<<"N">>)],
     card |-> [f \in Fields |->
                 IF f = "pan_number" THEN Some(ConstStr("A"))
                 ELSE IF f = "dob" THEN Some(ConstStr("1"))
                 ELSE Some(<<"N">>)],
     partial |-> [f \in NameFields |-> 100000],
     img2 |-> TRUE, img3 |-> TRUE, ocrOk |-> TRUE, nFaces |-> 2,
     cmp |-> [kind |-> "match", sim |-> 90000]]

\* documents that differ in size, well-formedness and page count
StructDocs ==
    {[BaseDoc EXCEPT !.len = l, !.parses = p, !.pages = n] :
        l \in Lens, p \in BOOLEAN, n \in 0..MaxPages}

\* documents that differ in what the two branches meet
BranchDocs ==
    {[BaseDoc EXCEPT !.img2 = i2, !.img3 = i3, !.ocrOk = o, !.nFaces = n, !.cmp = c] :
        i2 \in BOOLEAN, i3 \in BOOLEAN, o \in BOOLEAN, n \in 0..MaxFaces, c \in CmpOutcomes}

\* documents that differ in one name field
NameDocs ==
    {[BaseDoc EXCEPT !.form[f] = a, !.card[f] = b, !.partial[f] = p] :
        f \in NameFields, a \in NameValues, b \in NameValues, p \in PartialSamples}

\* documents that differ in one fixed-format field
ExactDocs ==
    {[BaseDoc EXCEPT !.form["pan_number"] = a, !.card["pan_number"] = b] :
        a \in FormPans, b \in CardPans}
    \cup {[BaseDoc EXCEPT !.form["dob"] = a, !.card["dob"] = b] : a \in Dobs, b \in Dobs}

\* documents in which every field independently matches or not, and the
\* faces match or not
MixDocs ==
    {[BaseDoc EXCEPT !.partial = [f \in NameFields |-> IF f \in bad THEN 0 ELSE 100000],
                     !.card = [f \in Fields |->
                                 IF f \in bad /\ f = "pan_number" THEN None
                                 ELSE IF f \in bad /\ f = "dob" THEN Some(ConstStr("2"))
                                 ELSE BaseDoc.card[f]],
                     !.cmp = c] :
        bad \in SUBSET Fields, c \in CmpOutcomes}

Docs == StructDocs \cup BranchDocs \cup NameDocs \cup ExactDocs \cup MixDocs

\* the argument is left out, given as "", or given
AppIdArgs == {None, Some(<<>>), Some(<<"X">>)}
\* values random.randint(RAND_LO, RAND_HI) is sampled at
RandSample == {RAND_LO, RAND_HI}
\* latency readings (metrics)
Ticks == 0..MaxTick
\* clock readings (processed_at) of the run-th submission: time moves on between submissions
Clock(run) == run..(run + MaxTick)

----------------------------------------------------------------------------
(* Branch outcomes                                                          *)

NoResult == [ok |-> FALSE, err |-> "", match_scores |-> [f \in Fields |-> 0], similarity |-> 0]
KycResult(scores) == [NoResult EXCEPT !.ok = TRUE, !.match_scores = scores]
FaceResult(sim) == [NoResult EXCEPT !.ok = TRUE, !.similarity = sim]
\* an exception leaving a branch
Raised(msg) == [NoResult EXCEPT !.err = msg]

FaceFailureSwallowed(msg) == FaceResult(0)

\* compare_faces_from_pdf: except Exception as e: raise RuntimeError(...)
FaceFailure(msg) == Raised(msg)

\* similarity = result['FaceMatches'][0]['Similarity'] if result['FaceMatches'] else 0.0,
\* then round(similarity, 2)
FaceSimilarity(c) == IF c.kind = "match" THEN Round2(c.sim) ELSE 0

Terminal == {"ok", "err"}

----------------------------------------------------------------------------
(* validate_pdf_file and the handler's exception translation                *)

HTTPException(status, code) == [status_code |-> status, code |-> code]

\* str(e) of the HTTPException raised by validate_pdf_file
HttpExceptionStr(e) ==
    CASE e.code = "FILE_TOO_LARGE" -> "413: FILE_TOO_LARGE"
      [] e.code = "INVALID_PDF" -> "400: INVALID_PDF"
      [] OTHER -> "400: INVALID_PAGE_COUNT"

NoResponse == [status |-> 0]

\* except Exception as e: raise HTTPException(500, PROCESSING_FAILED, str(e)).
\* It encloses the whole body of the handler, validate_pdf_file included.
ExceptHandler(msg) == [status |-> 500, code |-> "PROCESSING_FAILED", message |-> msg]

\* file_size_mb > MAX_FILE_SIZE_MB with file_size_mb = len / (1024 * 1024)
FileTooLarge(len) == len > MAX_FILE_SIZE_MB * 1024 * 1024

PageCountAtLeast(n) == n >= REQUIRED_PAGE_COUNT

\* not (page_count != REQUIRED_PAGE_COUNT)
PageCountOk(n) == n = REQUIRED_PAGE_COUNT

\* application_id or f"APP-{random.randint(10000, 99999)}"
GeneratedId(n) == Some(<<"APP-", ToString(n)>>)

AlwaysGeneratedIds(arg) == {GeneratedId(n) : n \in RandSample}

\* the values application_id can take for a given argument
ApplicationIds(arg) ==
    IF Truthy(arg) THEN {arg} ELSE {GeneratedId(n) : n \in RandSample}

----------------------------------------------------------------------------
(* asyncio.gather over the two executor futures                             *)

GatherFirstCompleted(kp, fp) == kp = "ok" \/ fp = "ok"

\* gather delivers its result list once every awaitable has a result
GatherComplete(kp, fp) == kp = "ok" /\ fp = "ok"

GatherRaisesAfterAll(kp, fp) ==
    (kp = "err" \/ fp = "err") /\ kp \in Terminal /\ fp \in Terminal

\* gather (return_exceptions=False) propagates the first exception to the
\* awaiter as soon as one awaitable has failed
GatherRaises(kp, fp) == kp = "err" \/ fp = "err"

\* the exception gather propagates: that of the first future to fail
FirstFailure(order, kr, fr) ==
    LET res(b) == IF b = "kyc" THEN kr ELSE fr
        failed == SelectSeq(order, LAMBDA b : ~res(b).ok)
    IN  res(failed[1]).err

----------------------------------------------------------------------------
(* Verdict aggregation                                                      *)

\* f"{key.upper()}_MISMATCH"
ErrorCode(key) ==
    CASE key = "full_name" -> "FULL_NAME_MISMATCH"
      [] key = "father_name" -> "FATHER_NAME_MISMATCH"
      [] key = "pan_number" -> "PAN_NUMBER_MISMATCH"
      [] OTHER -> "DOB_MISMATCH"

\* f"{key.replace('_', ' ').upper()} differs between Page 1 and PAN card"
ErrorMessage(key) ==
    CASE key = "full_name" -> "FULL NAME differs between Page 1 and PAN card"
      [] key = "father_name" -> "FATHER NAME differs between Page 1 and PAN card"
      [] key = "pan_number" -> "PAN NUMBER differs between Page 1 and PAN card"
      [] OTHER -> "DOB differs between Page 1 and PAN card"

\* is_pass = score >= TEXT_SIMILARITY_THRESHOLD
IsPass(score) == score >= TEXT_SIMILARITY_THRESHOLD * Scale

\* face_pass = face["similarity"] >= (FACE_SIMILARITY_THRESHOLD * 100)
FacePass(similarity) == similarity >= FACE_SIMILARITY_THRESHOLD_X100 * Scale

OverallPassEither(field_pass, face_pass) == field_pass \/ face_pass

\* "overall_pass": field_pass and face_pass
OverallPass(field_pass, face_pass) == field_pass /\ face_pass

ErrorsForAll(scores) ==
    [i \in 1..Len(FieldOrder) |->
        [code |-> ErrorCode(FieldOrder[i]), message |-> ErrorMessage(FieldOrder[i])]]

\* the errors list: one entry appended per failing field, in dict order
Errors(scores) ==
    LET failing == SelectSeq(FieldOrder, LAMBDA key : ~IsPass(scores[key]))
    IN  [i \in 1..Len(failing) |->
            [code |-> ErrorCode(failing[i]), message |-> ErrorMessage(failing[i])]]

\* response_data
ResponseData(appid, kyc, face, at, ms) ==
    LET scores == kyc.match_scores
        field_matches == [key \in Fields |-> [score |-> scores[key], pass |-> IsPass(scores[key])]]
        field_pass == \A key \in Fields : IsPass(scores[key])
        face_pass == FacePass(face.similarity)
    IN  [status |-> 200,
         application_id |-> appid,
         field_matches |-> field_matches,
         field_pass |-> field_pass,
         face_match |-> [similarity |-> face.similarity, pass |-> face_pass],
         overall_pass |-> OverallPass(field_pass, face_pass),
         errors |-> Errors(scores),
         processed_at |-> at,
         metrics |-> ms]

NoJoin == [kyc_validation |-> NoResult, face_similarity |-> NoResult]

----------------------------------------------------------------------------
(* Initial state: a request has arrived, nothing has run                    *)

Init ==
    /\ \/ doc \in Docs /\ appIdArg \in AppIdArgs \ {Some(<<>>)}
       \/ doc = BaseDoc /\ appIdArg = Some(<<>>)
    /\ runNo = 1
    /\ prev = NoResponse
    /\ pc = "start"
    /\ application_id = None
    /\ joined = NoJoin
    /\ response = NoResponse
    /\ kycPc = "idle"
    /\ kycRes = NoResult
    /\ facePc = "idle"
    /\ faceRes = NoResult
    /\ doneOrder = <<>>
    /\ calls = {}

----------------------------------------------------------------------------
(* validate_application, up to the fork                                     *)

\* application_id = application_id or f"APP-{random.randint(...)}"; contents = await file.read()
Start ==
    /\ pc = "start"
    /\ application_id' \in ApplicationIds(appIdArg)
    /\ pc' = "size"
    /\ UNCHANGED <<doc, appIdArg, runNo, prev, joined, response,
                   kycPc, kycRes, facePc, faceRes, doneOrder, calls>>

\* validate_pdf_file: the size check
CheckSize ==
    /\ pc = "size"
    /\ IF FileTooLarge(doc.len)
       THEN /\ response' = ExceptHandler(HttpExceptionStr(HTTPException(413, "FILE_TOO_LARGE")))
            /\ pc' = "done"
       ELSE /\ response' = response
            /\ pc' = "parse"
    /\ UNCHANGED <<doc, appIdArg, runNo, prev, application_id, joined,
                   kycPc, kycRes, facePc, faceRes, doneOrder, calls>>

\* validate_pdf_file: fitz.open(stream=contents, filetype="pdf")
OpenPdf ==
    /\ pc = "parse"
    /\ calls' = calls \cup {"fitz.open"}
    /\ IF ~doc.parses
       THEN /\ response' = ExceptHandler(HttpExceptionStr(HTTPException(400, "INVALID_PDF")))
            /\ pc' = "done"
       ELSE /\ response' = response
            /\ pc' = "pages"
    /\ UNCHANGED <<doc, appIdArg, runNo, prev, application_id, joined,
                   kycPc, kycRes, facePc, faceRes, doneOrder>>

\* validate_pdf_file: the page-count check (the file-name warning only logs)
CheckPageCount ==
    /\ pc = "pages"
    /\ IF ~PageCountOk(doc.pages)
       THEN /\ response' = ExceptHandler(HttpExceptionStr(HTTPException(400, "INVALID_PAGE_COUNT")))
            /\ pc' = "done"
       ELSE /\ response' = response
            /\ pc' = "submit_kyc"
    /\ UNCHANGED <<doc, appIdArg, runNo, prev, application_id, joined,
                   kycPc, kycRes, facePc, faceRes, doneOrder, calls>>

\* run_parallel: kyc_future = loop.run_in_executor(executor, process_kyc_pdf, ...)
SubmitKyc ==
    /\ pc = "submit_kyc"
    /\ calls' = calls \cup {"run_parallel"}
    /\ kycPc' = "extract"
    /\ pc' = "submit_face"
    /\ UNCHANGED <<doc, appIdArg, runNo, prev, application_id, joined, response,
                   kycRes, facePc, faceRes, doneOrder>>

\* run_parallel: face_future = loop.run_in_executor(executor, compare_faces_from_pdf, ...)
SubmitFace ==
    /\ pc = "submit_face"
    /\ facePc' = "extract"
    /\ pc' = "gather"
    /\ UNCHANGED <<doc, appIdArg, runNo, prev, application_id, joined, response,
                   kycPc, kycRes, faceRes, doneOrder, calls>>

----------------------------------------------------------------------------
(* process_kyc_pdf, on its worker thread                                    *)

\* page 1 text and form patterns; first image of page 2, resized and re-encoded
KycExtract ==
    /\ kycPc = "extract"
    /\ calls' = calls \cup {"process_kyc_pdf"}
    /\ IF ~doc.img2
       THEN /\ kycRes' = Raised("No image found on page 2")
            /\ kycPc' = "err"
            /\ doneOrder' = Append(doneOrder, "kyc")
       ELSE /\ kycPc' = "ocr"
            /\ UNCHANGED <<kycRes, doneOrder>>
    /\ UNCHANGED <<doc, appIdArg, runNo, prev, pc, application_id, joined, response,
                   facePc, faceRes>>

\* rekognition_client.detect_text(Image={"Bytes": image_bytes})
KycDetectText ==
    /\ kycPc = "ocr"
    /\ calls' = calls \cup {"detect_text"}
    /\ IF ~doc.ocrOk
       THEN /\ kycRes' = Raised("detect_text failed")
            /\ kycPc' = "err"
            /\ doneOrder' = Append(doneOrder, "kyc")
       ELSE /\ kycPc' = "compare"
            /\ UNCHANGED <<kycRes, doneOrder>>
    /\ UNCHANGED <<doc, appIdArg, runNo, prev, pc, application_id, joined, response,
                   facePc, faceRes>>

\* card patterns over the recognised lines, then the comparison dict
KycCompare ==
    /\ kycPc = "compare"
    /\ kycRes' = KycResult(MatchScores(doc))
    /\ kycPc' = "ok"
    /\ doneOrder' = Append(doneOrder, "kyc")
    /\ UNCHANGED <<doc, appIdArg, runNo, prev, pc, application_id, joined, response,
                   facePc, faceRes, calls>>

----------------------------------------------------------------------------
(* compare_faces_from_pdf, on its worker thread                             *)

\* for page_number in [1, 2]: first image of the page, resized; then the composite
FaceExtract ==
    /\ facePc = "extract"
    /\ calls' = calls \cup {"compare_faces_from_pdf"}
    /\ IF ~doc.img2 \/ ~doc.img3
       THEN /\ faceRes' = FaceFailure(IF ~doc.img2
                                      THEN "Face comparison failed: No image on page 2"
                                      ELSE "Face comparison failed: No image on page 3")
            /\ facePc' = IF faceRes'.ok THEN "ok" ELSE "err"
            /\ doneOrder' = Append(doneOrder, "face")
       ELSE /\ facePc' = "detect"
            /\ UNCHANGED <<faceRes, doneOrder>>
    /\ UNCHANGED <<doc, appIdArg, runNo, prev, pc, application_id, joined, response,
                   kycPc, kycRes>>

\* rekognition_client.detect_faces(...); if len(faces) < 2: raise ValueError
FaceDetectFaces ==
    /\ facePc = "detect"
    /\ calls' = calls \cup {"detect_faces"}
    /\ IF doc.nFaces < 2
       THEN /\ faceRes' = FaceFailure("Face comparison failed: Expected 2 faces but found less.")
            /\ facePc' = IF faceRes'.ok THEN "ok" ELSE "err"
            /\ doneOrder' = Append(doneOrder, "face")
       ELSE /\ facePc' = "compare"
            /\ UNCHANGED <<faceRes, doneOrder>>
    /\ UNCHANGED <<doc, appIdArg, runNo, prev, pc, application_id, joined, response,
                   kycPc, kycRes>>

\* crops of faces[:2]; rekognition_client.compare_faces(...); the result dict
FaceCompareFaces ==
    /\ facePc = "compare"
    /\ calls' = calls \cup {"compare_faces"}
    /\ faceRes' = IF doc.cmp.kind = "error"
                  THEN FaceFailure("Face comparison failed: compare_faces failed")
                  ELSE FaceResult(FaceSimilarity(doc.cmp))
    /\ facePc' = IF faceRes'.ok THEN "ok" ELSE "err"
    /\ doneOrder' = Append(doneOrder, "face")
    /\ UNCHANGED <<doc, appIdArg, runNo, prev, pc, application_id, joined, response,
                   kycPc, kycRes>>

----------------------------------------------------------------------------
(* validate_application, from the join on                                   *)

\* kyc_result, face_result = await asyncio.gather(kyc_future, face_future)
GatherJoin ==
    /\ pc = "gather"
    /\ GatherComplete(kycPc, facePc)
    /\ joined' = [kyc_validation |-> kycRes, face_similarity |-> faceRes]
    /\ pc' = "aggregate"
    /\ UNCHANGED <<doc, appIdArg, runNo, prev, application_id, response,
                   kycPc, kycRes, facePc, faceRes, doneOrder, calls>>

\* the await raises the first branch failure; the handler's except turns it into the 500
GatherRaise ==
    /\ pc = "gather"
    /\ GatherRaises(kycPc, facePc)
    /\ response' = ExceptHandler(FirstFailure(doneOrder, kycRes, faceRes))
    /\ pc' = "done"
    /\ UNCHANGED <<doc, appIdArg, runNo, prev, application_id, joined,
                   kycPc, kycRes, facePc, faceRes, doneOrder, calls>>

\* the aggregation loop, the thresholds and the 200 response
Aggregate ==
    /\ pc = "aggregate"
    /\ \E at \in Clock(runNo), ms \in Ticks :
          response' = ResponseData(application_id, joined.kyc_validation,
                                   joined.face_similarity, at, ms)
    /\ pc' = "done"
    /\ UNCHANGED <<doc, appIdArg, runNo, prev, application_id, joined,
                   kycPc, kycRes, facePc, faceRes, doneOrder, calls>>

----------------------------------------------------------------------------
(* The client submits the same bytes and the same arguments again           *)

Rerun ==
    /\ pc = "done"
    /\ kycPc \in Terminal \cup {"idle"}
    /\ facePc \in Terminal \cup {"idle"}
    /\ runNo < MaxRuns
    /\ runNo' = runNo + 1
    /\ prev' = response
    /\ pc' = "start"
    /\ application_id' = None
    /\ joined' = NoJoin
    /\ response' = NoResponse
    /\ kycPc' = "idle"
    /\ kycRes' = NoResult
    /\ facePc' = "idle"
    /\ faceRes' = NoResult
    /\ doneOrder' = <<>>
    /\ calls' = {}
    /\ UNCHANGED <<doc, appIdArg>>

Next ==
    \/ Start
    \/ CheckSize
    \/ OpenPdf
    \/ CheckPageCount
    \/ SubmitKyc
    \/ SubmitFace
    \/ KycExtract
    \/ KycDetectText
    \/ KycCompare
    \/ FaceExtract
    \/ FaceDetectFaces
    \/ FaceCompareFaces
    \/ GatherJoin
    \/ GatherRaise
    \/ Aggregate
    \/ Rerun

Spec == Init /\ [][Next]_vars

----------------------------------------------------------------------------
(* What the claims speak about, stated on the request's inputs              *)

TooLarge == doc.len > 10 * 1024 * 1024
Unparsable == ~TooLarge /\ ~doc.parses
WrongPageCount == ~TooLarge /\ doc.parses /\ doc.pages # 3
StructurallyInvalid == TooLarge \/ Unparsable \/ WrongPageCount
\* the text branch cannot succeed on this document
KycMustFail == ~doc.img2 \/ ~doc.ocrOk
\* the face branch cannot succeed on this document
FaceMustFail == ~doc.img2 \/ ~doc.img3 \/ doc.nFaces < 2 \/ doc.cmp.kind = "error"
Answered == pc = "done"
Is200 == Answered /\ response.status = 200
Running(p) == p \notin {"idle", "ok", "err"}
ExpectedCode ==
    [f \in Fields |->
        CASE f = "full_name" -> "FULL_NAME_MISMATCH"
          [] f = "father_name" -> "FATHER_NAME_MISMATCH"
          [] f = "pan_number" -> "PAN_NUMBER_MISMATCH"
          [] OTHER -> "DOB_MISMATCH"]
CountCode(errors, c) == Cardinality({i \in 1..Len(errors) : errors[i].code = c})
Absent(f) == ~doc.form[f].some \/ ~doc.card[f].some
PipelineCalls ==
    {"run_parallel", "process_kyc_pdf", "compare_faces_from_pdf",
     "detect_text", "detect_faces", "compare_faces"}

----------------------------------------------------------------------------
\* C1: every request whose document fails structural validation is answered
\* with the validator's own 4xx: 413 FILE_TOO_LARGE for an oversized file,
\* 400 INVALID_PDF for bytes that do not parse, 400 INVALID_PAGE_COUNT for a
\* page count other than 3.
C1_StructuralFailureAnswered4xx ==
    Answered =>
        /\ TooLarge => (response.status = 413 /\ response.code = "FILE_TOO_LARGE")
        /\ Unparsable => (response.status = 400 /\ response.code = "INVALID_PDF")
        /\ WrongPageCount => (response.status = 400 /\ response.code = "INVALID_PAGE_COUNT")

\* C2: in every 200 response, each field passes iff its score >= 80,
\* field_pass iff all four fields pass, face_match.pass iff similarity >= 70,
\* and overall_pass iff field_pass and face_match.pass.
C2_OverallPassIsConjunction ==
    Is200 =>
        /\ \A f \in Fields :
              response.field_matches[f].pass = (response.field_matches[f].score >= 8000)
        /\ response.field_pass = (\A f \in Fields : response.field_matches[f].score >= 8000)
        /\ response.face_match.pass = (response.face_match.similarity >= 7000)
        /\ response.overall_pass = (response.field_pass /\ response.face_match.pass)

\* C2 witness: all fields pass, the faces score below 70, the verdict fails
C2_Witness ==
    /\ Is200
    /\ response.field_pass
    /\ response.face_match.similarity < 7000
    /\ ~response.face_match.pass
    /\ ~response.overall_pass

\* C3: for a structurally valid document on which either branch fails, the
\* answer is 500 PROCESSING_FAILED in every interleaving, and a 200 verdict is
\* only ever built when both branches succeeded.
C3_BranchFailureIs500 ==
    /\ (Answered /\ ~StructurallyInvalid /\ (KycMustFail \/ FaceMustFail))
          => (response.status = 500 /\ response.code = "PROCESSING_FAILED")
    /\ response.status = 200
          => (kycPc = "ok" /\ facePc = "ok" /\ ~KycMustFail /\ ~FaceMustFail)

\* C3 witness: the face branch failed, the text branch succeeded, the answer is the 500
C3_Witness ==
    /\ Answered
    /\ kycPc = "ok"
    /\ facePc = "err"
    /\ response.status = 500
    /\ response.code = "PROCESSING_FAILED"

\* C4: the stages are gated size check -> parse -> page-count check ->
\* orchestrator: an oversized document is never parsed, and a structurally
\* invalid document never starts run_parallel, a branch or a remote call.
C4_StagesGated ==
    /\ TooLarge => "fitz.open" \notin calls
    /\ pc \in {"pages", "submit_kyc", "submit_face", "gather", "aggregate"}
          => ("fitz.open" \in calls /\ ~TooLarge /\ doc.parses)
    /\ StructurallyInvalid
          => (calls \cap PipelineCalls = {} /\ kycPc = "idle" /\ facePc = "idle")

\* C4 witness: a well-formed document with the wrong page count has been rejected
C4_Witness ==
    /\ Answered
    /\ WrongPageCount
    /\ "fitz.open" \in calls
    /\ response.status # 200

\* C5: when the form value or the card value of a field is absent, the
\* request is still answered with a verdict, in which that field scores
\* exactly 0, does not pass, and has its _MISMATCH entry in errors.
C5_AbsentFieldScoresZero ==
    /\ (Answered /\ ~StructurallyInvalid /\ ~KycMustFail /\ ~FaceMustFail)
          => response.status = 200
    /\ Is200 =>
          \A f \in Fields :
              Absent(f) =>
                  /\ response.field_matches[f].score = 0
                  /\ ~response.field_matches[f].pass
                  /\ CountCode(response.errors, ExpectedCode[f]) >= 1

\* C5 witness: a verdict for a document whose form lacks the PAN number
C5_Witness ==
    /\ Is200
    /\ ~doc.form["pan_number"].some
    /\ doc.card["pan_number"].some
    /\ response.field_matches["pan_number"].score = 0
    /\ CountCode(response.errors, "PAN_NUMBER_MISMATCH") = 1

\* C6: in every 200 response, errors holds exactly one entry, coded
\* <FIELD>_MISMATCH, for each field that did not pass, and nothing else.
C6_ErrorsMatchFailingFields ==
    Is200 =>
        /\ \A f \in Fields :
              CountCode(response.errors, ExpectedCode[f])
                  = IF response.field_matches[f].pass THEN 0 ELSE 1
        /\ Len(response.errors)
              = Cardinality({f \in Fields : ~response.field_matches[f].pass})

\* C6 witness: a verdict with failing and passing fields side by side
C6_Witness ==
    /\ Is200
    /\ ~response.field_matches["father_name"].pass
    /\ ~response.field_matches["dob"].pass
    /\ response.field_matches["full_name"].pass
    /\ response.field_matches["pan_number"].pass
    /\ Len(response.errors) = 2

\* C7: the score of the exact-match fields is symmetric: what the branch
\* computed for (form, card) is what the scorer gives for (card, form), and
\* the scorer agrees on (a, b) and (b, a) for all values of either case.
C7_ExactScoreSymmetric ==
    /\ kycPc = "ok" =>
          \A f \in ExactFields :
              kycRes.match_scores[f] = ExactScore(doc.card[f], doc.form[f])
    /\ (pc = "start" /\ runNo = 1 /\ doc = BaseDoc) =>
          \A a \in CardPans \cup Dobs, b \in CardPans \cup Dobs :
              ExactScore(a, b) = ExactScore(b, a)

\* C7 witness: the edit-distance branch gave a score strictly between 0 and 100
C7_Witness ==
    /\ kycPc = "ok"
    /\ doc.form["pan_number"].some
    /\ doc.card["pan_number"].some
    /\ kycRes.match_scores["pan_number"] > 0
    /\ kycRes.match_scores["pan_number"] < 10000

Verdict(r) ==
    <<r.application_id, r.field_matches, r.field_pass, r.face_match, r.overall_pass, r.errors>>
VerdictSansId(r) ==
    <<r.field_matches, r.field_pass, r.face_match, r.overall_pass, r.errors>>
BothRuns200 == Is200 /\ runNo > 1 /\ prev.status = 200

\* C8 as claimed: two runs on the same bytes and arguments, application_id
\* supplied or not, give the same application_id, field_matches, field_pass,
\* face_match, overall_pass and errors.
C8_IdenticalVerdict ==
    BothRuns200 => Verdict(prev) = Verdict(response)

\* C8 as amended: two runs on the same bytes and arguments end alike, with
\* the same field_matches, field_pass, face_match, overall_pass and errors;
\* application_id is the same when a non-empty one was supplied.
C8_IdenticalVerdictGivenId ==
    /\ (Answered /\ runNo > 1) => response.status = prev.status
    /\ BothRuns200 =>
          /\ VerdictSansId(prev) = VerdictSansId(response)
          /\ Truthy(appIdArg) =>
                (prev.application_id = appIdArg /\ response.application_id = appIdArg)

\* C8 witness: two verdicts of the same request, differing in id and timestamp only
C8_Witness ==
    /\ BothRuns200
    /\ prev.application_id # response.application_id
    /\ prev.processed_at # response.processed_at
    /\ VerdictSansId(prev) = VerdictSansId(response)

\* C9: aggregation starts only once both branches have completed, each
\* result is taken from its own branch, and the verdict is a function of the
\* document alone, whatever the interleaving and completion order.
C9_JoinBeforeAggregate ==
    /\ pc = "aggregate" =>
          /\ kycPc = "ok" /\ facePc = "ok"
          /\ joined.kyc_validation = kycRes
          /\ joined.face_similarity = faceRes
    /\ Is200 =>
          /\ \A f \in Fields : response.field_matches[f].score = MatchScores(doc)[f]
          /\ response.face_match.similarity = FaceSimilarity(doc.cmp)

\* C9 witness: a verdict from a run in which the face branch finished first
C9_Witness ==
    /\ Is200
    /\ doneOrder = <<"face", "kyc">>

\* C10: the join raises as soon as one branch has failed, without waiting
\* for the other; the other branch is not cancelled and can take its next
\* step; the answer, once given, is not changed by its later outcome.
C10_FailFastNoCancel ==
    /\ [](pc = "gather" /\ (kycPc = "err" \/ facePc = "err") => ENABLED GatherRaise)
    /\ [](Answered /\ Running(kycPc) => ENABLED (KycExtract \/ KycDetectText \/ KycCompare))
    /\ [](Answered /\ Running(facePc)
             => ENABLED (FaceExtract \/ FaceDetectFaces \/ FaceCompareFaces))
    /\ [][(Answered /\ runNo' = runNo) => (response' = response /\ pc' = pc)]_vars

\* C10 witness: the 500 has been given for the face failure while the text branch still runs
C10_Witness ==
    /\ Answered
    /\ response.status = 500
    /\ facePc = "err"
    /\ Running(kycPc)

====
